---- MODULE Spec2Model ----
(***************************************************************************)
(* Grid-world environment and tabular Q-learning (notebook "Tabular        *)
(* Reinforcement Learning"): class Environment, epsilon_greedy_policy and  *)
(* learn_Q.                                                                *)
(*                                                                         *)
(* Conventions of the model                                                *)
(*  - a grid coordinate (i, j) of the code is the tuple <<i, j>>, with the *)
(*    code's 0-based row and column;                                       *)
(*  - Python lists are sequences, so list index k of the code is index     *)
(*    k + 1 here (state and action indices run from 1);                    *)
(*  - the floating point numbers of learn_Q are exact fixed-point numbers: *)
(*    a Q-value or reward accumulator q is the integer q * QScale, an      *)
(*    exploration probability or uniform draw e is the integer             *)
(*    e * EpsScale.  The parameter values of Configs are chosen so that    *)
(*    every result is an integer at that scale (ExactArith checks it).     *)
(***************************************************************************)
EXTENDS Integers, Sequences, FiniteSets, TLC

VARIABLES
    env,    \* the Environment instance: [current_state, episode]
    lq,     \* the activation of learn_Q that owns env: its parameters and locals
    hist,   \* what that activation has observed: one record per loop iteration
    twin,   \* a second, independent activation of learn_Q: [env, lq, hist]
    tape,   \* seed -> the draws the generator seeded with it has yielded so far
    rng     \* the generator of module random, one per process: [seed, pos]

vars == <<env, lq, hist, twin, tape, rng>>

(***************************************************************************)
(* Bounds of the model.                                                    *)
(***************************************************************************)
\* largest max_steps among the configurations explored
MaxSteps == 9
\* max_steps of the two activations of SpecTwin
TwinSteps == 4
\* the caller of SpecEnv stops calling once env.episode exceeds this
MaxEpisode == 4

(***************************************************************************)
(* class Environment: the fixed tables built by __init__.                  *)
(***************************************************************************)
terminal_states == {<<1, 2>>, <<3, 1>>, <<3, 5>>}

rewards ==
    << <<-1,       0,       0, -1, -1,  -1>>,
       <<-1,       0, -100000, -1,  0,  -1>>,
       <<-1,      -1,      -1, -1,  0,  -1>>,
       <<-1, -100000,       0, -1, -1, 100>> >>

\* rewards[i][j] of the code
RewardAt(c) == rewards[c[1] + 1][c[2] + 1]

\* the coordinates (i, j) in the order of the two nested range() loops
GridCells ==
    [k \in 1..(Len(rewards) * Len(rewards[1])) |->
        <<(k - 1) \div Len(rewards[1]), (k - 1) % Len(rewards[1])>>]

\* "filter all states that can actually be reached": cells with a truthy reward
possible_states == SelectSeq(GridCells, LAMBDA c : RewardAt(c) # 0)

possible_actions == <<"right", "left", "up", "down">>

transitions ==
    [right |-> << << <<0, 0>>, <<0, 1>>, <<0, 2>>, <<0, 4>>, <<0, 5>>, <<0, 5>> >>,
                  << <<1, 0>>, <<1, 1>>, <<1, 3>>, <<1, 3>>, <<1, 4>>, <<1, 5>> >>,
                  << <<2, 1>>, <<2, 2>>, <<2, 3>>, <<2, 3>>, <<2, 4>>, <<2, 5>> >>,
                  << <<3, 1>>, <<3, 1>>, <<3, 2>>, <<3, 4>>, <<3, 5>>, <<3, 5>> >> >>,
     left  |-> << << <<0, 0>>, <<0, 1>>, <<0, 2>>, <<0, 3>>, <<0, 3>>, <<0, 4>> >>,
                  << <<1, 0>>, <<1, 1>>, <<1, 2>>, <<1, 2>>, <<1, 4>>, <<1, 5>> >>,
                  << <<2, 0>>, <<2, 0>>, <<2, 1>>, <<2, 2>>, <<2, 4>>, <<2, 5>> >>,
                  << <<3, 0>>, <<3, 0>>, <<3, 2>>, <<3, 3>>, <<3, 3>>, <<3, 4>> >> >>,
     up    |-> << << <<0, 0>>, <<0, 1>>, <<0, 2>>, <<0, 3>>, <<0, 4>>, <<0, 5>> >>,
                  << <<0, 0>>, <<1, 1>>, <<1, 2>>, <<0, 3>>, <<1, 4>>, <<0, 5>> >>,
                  << <<1, 0>>, <<2, 1>>, <<1, 2>>, <<1, 3>>, <<2, 4>>, <<1, 5>> >>,
                  << <<2, 0>>, <<2, 1>>, <<3, 2>>, <<2, 3>>, <<3, 4>>, <<2, 5>> >> >>,
     down  |-> << << <<1, 0>>, <<0, 1>>, <<0, 2>>, <<1, 3>>, <<0, 4>>, <<1, 5>> >>,
                  << <<2, 0>>, <<1, 1>>, <<2, 2>>, <<2, 3>>, <<1, 4>>, <<2, 5>> >>,
                  << <<3, 0>>, <<3, 1>>, <<2, 2>>, <<3, 3>>, <<2, 4>>, <<3, 5>> >>,
                  << <<3, 0>>, <<3, 1>>, <<3, 2>>, <<3, 3>>, <<3, 4>>, <<3, 5>> >> >>]

\* a mis-typed table entry: "down" from (2, 3) leads into the wall cell (2, 4)
TransitionWall(a, c) ==
    IF a = "down" /\ c = <<2, 3>> THEN <<2, 4>> ELSE transitions[a][c[1] + 1][c[2] + 1]

\* a table in which the terminal cells are walled off
TransitionNoExit(a, c) ==
    IF transitions[a][c[1] + 1][c[2] + 1] \in terminal_states
        THEN c
        ELSE transitions[a][c[1] + 1][c[2] + 1]

\* a table whose start cell is walled in on every side
TransitionCorner(a, c) ==
    IF c = <<0, 0>> THEN c ELSE transitions[a][c[1] + 1][c[2] + 1]

\* self.transitions[action][i][j]
Transition(a, c) == transitions[a][c[1] + 1][c[2] + 1]

\* the element of a one-element set (binds a value that is used several times)
The(S) == CHOOSE x \in S : TRUE

\* list.index: the first position holding x
IndexOf(seq, x) == CHOOSE k \in 1..Len(seq) : seq[k] = x /\ \A m \in 1..(k - 1) : seq[m] # x

InSeq(seq, x) == \E k \in 1..Len(seq) : seq[k] = x

\* the lists without the check: every action in every state
AllActionsInState == [k \in 1..Len(possible_states) |-> possible_actions]

\* "check which actions per state actually make sense": the non-self-loop actions
possible_actions_in_state ==
    [k \in 1..Len(possible_states) |->
        SelectSeq(possible_actions,
                  LAMBDA a : Transition(a, possible_states[k]) # possible_states[k])]

(***************************************************************************)
(* class Environment: reset, __init__ and step.                            *)
(***************************************************************************)
StartState == <<0, 0>>

\* reset that forgets to count the episode
ResetNoCount(e) == [e EXCEPT !.current_state = StartState]

\* reset(): back to the start, one more episode
Reset(e) == [e EXCEPT !.current_state = StartState, !.episode = @ + 1]

\* __init__ that sets the start state itself instead of calling reset
EnvironmentFromZero == [current_state |-> StartState, episode |-> 0]

\* __init__: "self.episode = 0; self.reset()" (current_state is first set by reset)
Environment == Reset([current_state |-> <<>>, episode |-> 0])

\* what a call that raised leaves behind: the environment as given, nothing returned
Raised(e) == [env |-> e, reward |-> 0, state |-> e.current_state, done |-> FALSE,
              error |-> TRUE]

\* step that reports done without calling reset
StepNoReset(e, a) ==
    IF a \notin DOMAIN transitions
        THEN Raised(e)
        ELSE LET moved == [e EXCEPT !.current_state = Transition(a, e.current_state)]
             IN  [env |-> moved, reward |-> RewardAt(moved.current_state),
                  state |-> moved.current_state,
                  done |-> moved.current_state \in terminal_states, error |-> FALSE]

\* step that takes an unknown action for "stay where you are"
StepLenient(e, a) ==
    IF a \notin DOMAIN transitions
        THEN [env |-> e, reward |-> RewardAt(e.current_state), state |-> e.current_state,
              done |-> FALSE, error |-> FALSE]
        ELSE LET moved == [e EXCEPT !.current_state = Transition(a, e.current_state)]
                 reward == RewardAt(moved.current_state)
                 done == moved.current_state \in terminal_states
                 after == IF done THEN Reset(moved) ELSE moved
             IN  [env |-> after, reward |-> reward, state |-> after.current_state,
                  done |-> done, error |-> FALSE]

\* step that pays the reward of the cell the agent leaves
StepRewardLeft(e, a) ==
    IF a \notin DOMAIN transitions
        THEN Raised(e)
        ELSE LET moved == [e EXCEPT !.current_state = Transition(a, e.current_state)]
                 reward == RewardAt(e.current_state)
                 done == moved.current_state \in terminal_states
                 after == IF done THEN Reset(moved) ELSE moved
             IN  [env |-> after, reward |-> reward, state |-> after.current_state,
                  done |-> done, error |-> FALSE]

\* step that ends the episode when the agent walks into a wall
StepBumpDone(e, a) ==
    IF a \notin DOMAIN transitions
        THEN Raised(e)
        ELSE LET moved == [e EXCEPT !.current_state = Transition(a, e.current_state)]
                 reward == RewardAt(moved.current_state)
                 done == \/ moved.current_state \in terminal_states
                         \/ moved.current_state = e.current_state
                 after == IF done THEN Reset(moved) ELSE moved
             IN  [env |-> after, reward |-> reward, state |-> after.current_state,
                  done |-> done, error |-> FALSE]

\* step(action): the environment after the call and the returned triple;
\* self.transitions[action] raises KeyError for a key the dict does not hold,
\* before anything is assigned
Step(e, a) ==
    IF a \notin DOMAIN transitions
        THEN Raised(e)
        ELSE LET moved == [e EXCEPT !.current_state = Transition(a, e.current_state)]
                 reward == RewardAt(moved.current_state)
                 done == moved.current_state \in terminal_states
                 after == IF done THEN Reset(moved) ELSE moved
             IN  [env |-> after, reward |-> reward, state |-> after.current_state,
                  done |-> done, error |-> FALSE]

(***************************************************************************)
(* Fixed-point arithmetic of the model.                                    *)
(***************************************************************************)
RECURSIVE Pow2(_)
Pow2(n) == IF n <= 0 THEN 1 ELSE 2 * Pow2(n - 1)

\* a Q-value q is held as q * QScale: one halving per sampling step at most
QScale == Pow2(MaxSteps)
\* a probability e is held as e * EpsScale: halves, halved once per episode
EpsScale == Pow2(MaxSteps + 2)

\* x * (n / d) for the rational <<n, d>>
MulRat(x, rat) == (x * rat[1]) \div rat[2]

Half == <<1, 2>>
One == <<1, 1>>

\* values random.uniform(0, 1) can return, scaled: 0, 1/2 and the largest below 1
UDraws == {0, EpsScale \div 2, EpsScale - 1}
\* values of the index draw inside random.choice
ChoiceDraws == 0..(Len(possible_actions) - 1)

\* random.choice(seq) for the index draw c
Choice(seq, c) == seq[(c % Len(seq)) + 1]

(***************************************************************************)
(* epsilon_greedy_policy                                                   *)
(***************************************************************************)
Max(row) == CHOOSE v \in {row[k] : k \in DOMAIN row} : \A k \in DOMAIN row : row[k] <= v

\* argmax that returns the last maximal index
ArgMaxLast(row) ==
    CHOOSE k \in DOMAIN row : row[k] = Max(row) /\ \A m \in DOMAIN row : m > k => row[m] # Max(row)

\* np.argmax: the first index holding the maximum
ArgMax(row) ==
    CHOOSE k \in DOMAIN row : row[k] = Max(row) /\ \A m \in DOMAIN row : m < k => row[m] # Max(row)

\* exploration that draws from all four actions
PolicyAnyAction(Qt, state, eps, u, c) ==
    IF u > eps
        THEN ArgMax(Qt[state])
        ELSE IndexOf(possible_actions, Choice(possible_actions, c))

\* epsilon_greedy_policy(Q, state, epsilon, env), with the values u and c that
\* random.uniform and random.choice return in this call
epsilon_greedy_policy(Qt, state, eps, u, c) ==
    IF u > eps
        THEN ArgMax(Qt[state])
        ELSE IndexOf(possible_actions, Choice(possible_actions_in_state[state], c))

(***************************************************************************)
(* learn_Q                                                                 *)
(***************************************************************************)
\* update that forgets to subtract the old value
UpdateNoDecay(q, reward, maxnext, lr, gamma) ==
    q + MulRat(reward * QScale + MulRat(maxnext, gamma), lr)

\* Q[state, action] + learning_rate * (reward + gamma * np.max(Q[new_state]) - Q[state, action])
UpdateNotDone(q, reward, maxnext, lr, gamma) ==
    q + MulRat(reward * QScale + MulRat(maxnext, gamma) - q, lr)

\* Q[state, action] + learning_rate * (reward - Q[state, action])
UpdateDone(q, reward, lr) == q + MulRat(reward * QScale - q, lr)

\* the decay with the sign of the exponent lost
DecayGrowing(cfg, episode) ==
    cfg.min_epsilon +
        (cfg.max_epsilon - cfg.min_epsilon) * Pow2(cfg.decay_rate * episode)

\* min_epsilon + (max_epsilon - min_epsilon) * np.exp(-decay_rate * env.episode),
\* decay_rate counted in units of ln 2, so that exp(-decay_rate * n) = 2^-(decay_rate * n)
DecayedEpsilon(cfg, episode) ==
    cfg.min_epsilon + (cfg.max_epsilon - cfg.min_epsilon) \div Pow2(cfg.decay_rate * episode)

\* np.zeros((len(env.possible_states), len(env.possible_actions)))
ZeroQ == [k \in 1..Len(possible_states) |-> [a \in 1..Len(possible_actions) |-> 0]]

\* the locals of learn_Q after the lines before the loop
LearnEntry(cfg) ==
    [cfg |-> cfg, pc |-> "loop", Q |-> ZeroQ, epsilon |-> EpsScale,
     cum_rewards |-> <<>>, total_reward |-> 0, s |-> 0,
     state |-> 0, action |-> 0, u |-> 0, c |-> 0,
     reward |-> 0, new_state |-> <<>>, new_index |-> 0, done |-> FALSE,
     ret |-> <<>>, plotted |-> <<>>]

\* a loop that runs one iteration too many: range(1, max_steps+2)
HasNextOffByOne(s, max_steps) == s + 1 <= max_steps + 1

\* a loop that stops only when s reaches max_steps exactly
HasNextUntilEqual(s, max_steps) == s # max_steps

\* "for s in range(1, max_steps+1)": is there a value after s
HasNext(s, max_steps) == s + 1 < max_steps + 1

\* an accumulator that is never reset
TotalKept(total, done) == total

\* "total_reward = 0" in the done branch: the accumulator after the iteration
TotalAfter(total, done) == IF done THEN 0 ELSE total

\* a log that takes an entry at every step
CumAlways(cum, total, done) == Append(cum, total)

\* "cum_rewards.append(total_reward)" in the done branch
CumAfter(cum, total, done) == IF done THEN Append(cum, total) ELSE cum

\* "state = index(current_state)" and "reward, new_state, done = env.step(a)"
CallStep(e, l, act) ==
    The({ [env |-> r.env,
           lq  |-> [l EXCEPT !.state = IndexOf(possible_states, e.current_state),
                             !.action = act, !.reward = r.reward,
                             !.new_state = r.state, !.done = r.done]] :
            r \in {Step(e, possible_actions[act])} })

\* an update that overwrites the whole row of the state
QWriteRow(Qt, state, action, q) == [Qt EXCEPT ![state] = [a \in DOMAIN @ |-> q]]

\* Q[state, action] = q
QWrite(Qt, state, action, q) == [Qt EXCEPT ![state][action] = q]

\* the rest of an iteration once step has returned: the accumulator, the Q
\* update, and the done branch (epsilon, cum_rewards, total_reward); called is
\* [env, lq] as CallStep left them, l the locals before the iteration
Learn(l, u, c, called) ==
    LET state == called.lq.state
        action == called.lq.action
        reward == called.lq.reward
        done == called.lq.done
        total == l.total_reward + reward
        new_index == IF done THEN 0 ELSE IndexOf(possible_states, called.lq.new_state)
        q == IF done
                THEN UpdateDone(l.Q[state][action], reward, l.cfg.learning_rate)
                ELSE UpdateNotDone(l.Q[state][action], reward, Max(l.Q[new_index]),
                                   l.cfg.learning_rate, l.cfg.gamma)
    IN  [env |-> called.env,
         lq  |-> [called.lq EXCEPT
                     !.s = @ + 1,
                     !.u = u, !.c = IF u > l.epsilon THEN 0 ELSE c,
                     !.new_index = new_index,
                     !.Q = QWrite(@, state, action, q),
                     !.epsilon = IF done THEN DecayedEpsilon(l.cfg, called.env.episode) ELSE @,
                     !.cum_rewards = CumAfter(@, total, done),
                     !.total_reward = TotalAfter(total, done)]]

\* one iteration of the loop of learn_Q, for the draws u and c: the policy
\* chooses act, step is called with it, and the table is updated
LoopBody(e, l, u, c) ==
    The({ Learn(l, u, c, called) :
            called \in { CallStep(e, l, act) :
                           act \in { epsilon_greedy_policy(
                                        l.Q, IndexOf(possible_states, e.current_state),
                                        l.epsilon, u, c) } } })

\* the record of one iteration: what the policy saw and chose, what step returned
Observed(l, after) ==
    [state |-> after.state, action |-> after.action, reward |-> after.reward,
     done |-> after.done, epsilon |-> l.epsilon]

\* "return Q" with the per-episode returns added
ReturnBoth(l) == [Q |-> l.Q, cum_rewards |-> l.cum_rewards]

\* what learn_Q hands back to its caller
ReturnValue(l) == [Q |-> l.Q]

\* the end of learn_Q: plt.plot(..., cum_rewards) and "return Q"
Returned(l) == [l EXCEPT !.pc = "done", !.plotted = l.cum_rewards, !.ret = ReturnValue(l)]

(***************************************************************************)
(* Configurations explored.                                                *)
(***************************************************************************)
Config(ms, lr, g, maxe, mine, dr, seed) ==
    [max_steps |-> ms, learning_rate |-> lr, gamma |-> g,
     max_epsilon |-> maxe, min_epsilon |-> mine, decay_rate |-> dr, seed |-> seed]

\* seed=15, the default of learn_Q
DefaultSeed == 15

\* the configurations the interface of learn_Q documents as valid
ValidConfigs ==
    { Config(MaxSteps, Half, One, EpsScale, 0, 1, DefaultSeed),
      Config(MaxSteps, One, Half, EpsScale, 0, 1, DefaultSeed),
      Config(MaxSteps, Half, One, EpsScale \div 2, 0, 1, DefaultSeed),
      Config(MaxSteps - 1, Half, One, EpsScale, EpsScale \div 2, 0, DefaultSeed) }

\* a step budget <= 0, a probability outside [0, 1], min_epsilon > max_epsilon
InvalidConfigs ==
    { Config(0, Half, One, EpsScale, 0, 1, DefaultSeed),
      Config(-1, Half, One, EpsScale, 0, 1, DefaultSeed),
      Config(MaxSteps, Half, One, 2 * EpsScale, 0, 1, DefaultSeed),
      Config(MaxSteps - 1, One, <<2, 1>>, EpsScale, 0, 1, DefaultSeed),
      Config(MaxSteps, Half, One, EpsScale \div 2, EpsScale, 1, DefaultSeed) }

Configs == ValidConfigs \cup InvalidConfigs

Seeds == {cfg.seed : cfg \in Configs}

\* the state of an activation that is not part of the specification at hand
Idle == [env |-> Environment, lq |-> [pc |-> "idle"], hist |-> <<>>]

NoTape == [sd \in Seeds |-> <<>>]

\* the generator before any random.seed call of the specification at hand
NoRng == [seed |-> 0, pos |-> 0]

(***************************************************************************)
(* Spec: one learn_Q run, for every configuration and every draw.          *)
(***************************************************************************)
Init ==
    /\ env = Environment
    /\ \E cfg \in Configs : lq = LearnEntry(cfg)
    /\ hist = <<>>
    /\ twin = Idle
    /\ tape = NoTape
    /\ rng = NoRng

LearnStep ==
    /\ lq.pc = "loop"
    /\ HasNext(lq.s, lq.cfg.max_steps)
    /\ \E u \in UDraws, c \in ChoiceDraws :
          \E n \in {LoopBody(env, lq, u, c)} :
              /\ env' = n.env
              /\ lq' = n.lq
              /\ hist' = Append(hist, Observed(lq, n.lq))
    /\ UNCHANGED <<twin, tape, rng>>

LearnReturn ==
    /\ lq.pc = "loop"
    /\ ~HasNext(lq.s, lq.cfg.max_steps)
    /\ lq' = Returned(lq)
    /\ UNCHANGED <<env, hist, twin, tape, rng>>

Next == LearnStep \/ LearnReturn

Spec == Init /\ [][Next]_vars

\* learn_Q is sequential code: a call that can take its next step takes it
SpecLive == Init /\ [][Next]_vars /\ WF_vars(Next)

(***************************************************************************)
(* SpecEnv: an Environment driven by a caller that passes any action to    *)
(* step, or calls reset, in any order.  lq.pc names the last call: "step", *)
(* "reset", or "error" for a step call that raised; lq.action is 0 after a *)
(* step call with an unknown action.                                       *)
(***************************************************************************)
InitEnv ==
    /\ env = Environment
    /\ lq = [LearnEntry(CHOOSE cfg \in ValidConfigs : TRUE) EXCEPT !.pc = "new"]
    /\ hist = <<>>
    /\ twin = Idle
    /\ tape = NoTape
    /\ rng = NoRng

EnvStep ==
    /\ env.episode <= MaxEpisode
    /\ \E act \in 1..Len(possible_actions) :
          \E n \in {CallStep(env, lq, act)} :
              env' = n.env /\ lq' = [n.lq EXCEPT !.pc = "step"]
    /\ UNCHANGED <<hist, twin, tape, rng>>

EnvReset ==
    /\ env.episode <= MaxEpisode
    /\ env' = Reset(env)
    /\ lq' = [lq EXCEPT !.pc = "reset"]
    /\ UNCHANGED <<hist, twin, tape, rng>>

\* action arguments that are none of "right", "left", "up", "down"
UnknownActions == {"stay", "north"}

\* step called with an unknown action; the caller catches what it raises
EnvStepUnknown ==
    /\ env.episode <= MaxEpisode
    /\ \E a \in UnknownActions :
          \E r \in {Step(env, a)} :
              /\ env' = r.env
              /\ lq' = [lq EXCEPT !.pc = IF r.error THEN "error" ELSE "step", !.action = 0]
    /\ UNCHANGED <<hist, twin, tape, rng>>

NextEnv == EnvStep \/ EnvReset \/ EnvStepUnknown

SpecEnv == InitEnv /\ [][NextEnv]_vars

(***************************************************************************)
(* SpecExplore: an Environment driven by the exploratory branch of         *)
(* epsilon_greedy_policy alone (epsilon = 1, as in the first episode of    *)
(* every run).  random.choice is uniform over the listed actions of the    *)
(* state, so an action that is offered again and again in a state is       *)
(* chosen there eventually: strong fairness per state and action.  Of      *)
(* these conditions the specification states one per state, for the listed *)
(* actions that lead nearer to a terminal state.                           *)
(***************************************************************************)
\* the non-terminal states from which a listed action leads into S
Predecessors(S) ==
    {possible_states[k] : k \in
        {m \in 1..Len(possible_states) :
            /\ possible_states[m] \notin terminal_states
            /\ \E i \in 1..Len(possible_actions_in_state[m]) :
                  Transition(possible_actions_in_state[m][i], possible_states[m]) \in S}}

RECURSIVE EndsIn(_, _)
\* the states from which listed actions lead into a terminal state in at most n
\* steps
EndsIn(S, n) ==
    IF n = 0 THEN S
    ELSE The({ EndsIn(T, n - 1) : T \in {S \cup Predecessors(S)} })

CanEnd == EndsIn(terminal_states, Len(possible_states))

\* Layers[n]: the states at most n listed actions away from a terminal state
Layers == [n \in 0..Len(possible_states) |-> EndsIn(terminal_states, n)]

\* d is fewer listed actions away from a terminal state than c
Nearer(c, d) == \E n \in DOMAIN Layers : d \in Layers[n] /\ c \notin Layers[n]

\* the agent is in the state of index k and the policy explores action i
ExploreAt(k, i) ==
    /\ env.episode <= MaxEpisode
    /\ IndexOf(possible_states, env.current_state) = k
    /\ \E c \in ChoiceDraws : epsilon_greedy_policy(lq.Q, k, EpsScale, 0, c) = i
    /\ \E n \in {CallStep(env, lq, i)} :
          env' = n.env /\ lq' = [n.lq EXCEPT !.pc = "step"]
    /\ UNCHANGED <<hist, twin, tape, rng>>

NextExplore ==
    \E k \in 1..Len(possible_states), i \in 1..Len(possible_actions) : ExploreAt(k, i)

\* in the state of index k the policy explores an action that leads nearer to
\* a terminal state
ExploreNearer(k) ==
    \E i \in 1..Len(possible_actions) :
        /\ Nearer(possible_states[k], Transition(possible_actions[i], possible_states[k]))
        /\ ExploreAt(k, i)

SpecExplore ==
    /\ InitEnv
    /\ [][NextExplore]_vars
    /\ \A k \in {m \in 1..Len(possible_states) : possible_states[m] \notin terminal_states} :
          SF_vars(ExploreNearer(k))

(***************************************************************************)
(* SpecTwin: two activations of learn_Q, each with its own Environment,    *)
(* Q-table and locals and each in a process of its own, whose iterations   *)
(* interleave in any order.  learn_Q seeds the generator of its process at *)
(* entry, so the draws of the k-th iteration of an activation are the k-th *)
(* draws of the sequence its seed determines: tape[seed] holds that        *)
(* sequence as far as some activation has read it.                         *)
(***************************************************************************)
\* a generator that is not seeded: every activation gets draws of its own
DrawUnseeded(tp, pos, fresh) == fresh

\* the draws at position pos of the sequence tp; past its end the generator
\* yields a value not known before, fresh
DrawFor(tp, pos, fresh) == IF pos <= Len(tp) THEN tp[pos] ELSE fresh

\* the draws of one iteration in SpecTwin: <<uniform, choice index>>
TwinDraws == {0, EpsScale - 1} \X (0..(Len(possible_actions) - 2))

TwinConfigs ==
    { Config(TwinSteps, Half, One, EpsScale, 0, 1, DefaultSeed),
      Config(TwinSteps, One, Half, EpsScale, 0, 1, DefaultSeed) }

\* one iteration of activation a = [env, lq, hist] with the generator's draws
SeededBody(a, fresh) ==
    The({ The({ [env |-> n.env, lq |-> n.lq,
                 hist |-> Append(a.hist, Observed(a.lq, n.lq)), draw |-> d] :
                  n \in {LoopBody(a.env, a.lq, d[1], d[2])} }) :
            d \in {DrawFor(tape[a.lq.cfg.seed], a.lq.s + 1, fresh)} })

\* the tape after an activation at position pos has used the draws d
TapeAfter(seed, pos, d) ==
    IF pos > Len(tape[seed]) THEN [tape EXCEPT ![seed] = Append(@, d)] ELSE tape

InitTwin ==
    /\ env = Environment
    /\ \E cfg \in TwinConfigs :
          /\ lq = LearnEntry(cfg)
          /\ twin = [env |-> Environment, lq |-> LearnEntry(cfg), hist |-> <<>>]
    /\ hist = <<>>
    /\ tape = NoTape
    /\ rng = NoRng

FirstStep ==
    /\ lq.pc = "loop"
    /\ HasNext(lq.s, lq.cfg.max_steps)
    /\ \E fresh \in TwinDraws :
          \E n \in {SeededBody([env |-> env, lq |-> lq, hist |-> hist], fresh)} :
              /\ env' = n.env
              /\ lq' = n.lq
              /\ hist' = n.hist
              /\ tape' = TapeAfter(lq.cfg.seed, lq.s + 1, n.draw)
    /\ UNCHANGED <<twin, rng>>

FirstReturn ==
    /\ lq.pc = "loop"
    /\ ~HasNext(lq.s, lq.cfg.max_steps)
    /\ lq' = Returned(lq)
    /\ UNCHANGED <<env, hist, twin, tape, rng>>

SecondStep ==
    /\ twin.lq.pc = "loop"
    /\ HasNext(twin.lq.s, twin.lq.cfg.max_steps)
    /\ \E fresh \in TwinDraws :
          \E n \in {SeededBody(twin, fresh)} :
              /\ twin' = [env |-> n.env, lq |-> n.lq, hist |-> n.hist]
              /\ tape' = TapeAfter(twin.lq.cfg.seed, twin.lq.s + 1, n.draw)
    /\ UNCHANGED <<env, lq, hist, rng>>

SecondReturn ==
    /\ twin.lq.pc = "loop"
    /\ ~HasNext(twin.lq.s, twin.lq.cfg.max_steps)
    /\ twin' = [twin EXCEPT !.lq = Returned(twin.lq)]
    /\ UNCHANGED <<env, lq, hist, tape, rng>>

NextTwin == FirstStep \/ FirstReturn \/ SecondStep \/ SecondReturn

SpecTwin == InitTwin /\ [][NextTwin]_vars

(***************************************************************************)
(* SpecShared: two activations of learn_Q in one process (two threads of   *)
(* one interpreter), whose iterations interleave in any order.  Each has   *)
(* its own Environment, Q-table and locals, but random.seed, random.uniform*)
(* and random.choice act on the one generator of module random: rng.seed   *)
(* is the seed of the last random.seed call, rng.pos counts the iterations *)
(* that have drawn from it since, and an iteration draws what tape holds   *)
(* for that seed at that position.                                         *)
(***************************************************************************)
\* max_steps of the two activations of SpecShared
SharedSteps == 2

\* the draws of one iteration in SpecShared: <<uniform, choice index>>
SharedDraws == {0, EpsScale - 1} \X (0..1)

SharedConfigs ==
    { Config(SharedSteps, Half, One, EpsScale, 0, 1, DefaultSeed),
      Config(SharedSteps, One, Half, EpsScale, 0, 1, DefaultSeed) }

\* random.seed(seed) at the entry of learn_Q
Seeded(seed) == [seed |-> seed, pos |-> 0]

\* one iteration of activation a = [env, lq, hist] with the draws of the
\* process-wide generator
SharedBody(a, fresh) ==
    The({ The({ [env |-> n.env, lq |-> n.lq,
                 hist |-> Append(a.hist, Observed(a.lq, n.lq)), draw |-> d] :
                  n \in {LoopBody(a.env, a.lq, d[1], d[2])} }) :
            d \in {DrawFor(tape[rng.seed], rng.pos + 1, fresh)} })

InitShared ==
    /\ env = Environment
    /\ \E cfg \in SharedConfigs : lq = [LearnEntry(cfg) EXCEPT !.pc = "entry"]
    /\ \E cfg \in SharedConfigs :
          twin = [env |-> Environment, lq |-> [LearnEntry(cfg) EXCEPT !.pc = "entry"],
                  hist |-> <<>>]
    /\ hist = <<>>
    /\ tape = NoTape
    /\ rng = NoRng

SharedFirstEnter ==
    /\ lq.pc = "entry"
    /\ lq' = [lq EXCEPT !.pc = "loop"]
    /\ rng' = Seeded(lq.cfg.seed)
    /\ UNCHANGED <<env, hist, twin, tape>>

SharedFirstStep ==
    /\ lq.pc = "loop"
    /\ HasNext(lq.s, lq.cfg.max_steps)
    /\ \E fresh \in SharedDraws :
          \E n \in {SharedBody([env |-> env, lq |-> lq, hist |-> hist], fresh)} :
              /\ env' = n.env
              /\ lq' = n.lq
              /\ hist' = n.hist
              /\ tape' = TapeAfter(rng.seed, rng.pos + 1, n.draw)
    /\ rng' = [rng EXCEPT !.pos = @ + 1]
    /\ UNCHANGED twin

SharedFirstReturn ==
    /\ lq.pc = "loop"
    /\ ~HasNext(lq.s, lq.cfg.max_steps)
    /\ lq' = Returned(lq)
    /\ UNCHANGED <<env, hist, twin, tape, rng>>

SharedSecondEnter ==
    /\ twin.lq.pc = "entry"
    /\ twin' = [twin EXCEPT !.lq.pc = "loop"]
    /\ rng' = Seeded(twin.lq.cfg.seed)
    /\ UNCHANGED <<env, lq, hist, tape>>

SharedSecondStep ==
    /\ twin.lq.pc = "loop"
    /\ HasNext(twin.lq.s, twin.lq.cfg.max_steps)
    /\ \E fresh \in SharedDraws :
          \E n \in {SharedBody(twin, fresh)} :
              /\ twin' = [env |-> n.env, lq |-> n.lq, hist |-> n.hist]
              /\ tape' = TapeAfter(rng.seed, rng.pos + 1, n.draw)
    /\ rng' = [rng EXCEPT !.pos = @ + 1]
    /\ UNCHANGED <<env, lq, hist>>

SharedSecondReturn ==
    /\ twin.lq.pc = "loop"
    /\ ~HasNext(twin.lq.s, twin.lq.cfg.max_steps)
    /\ twin' = [twin EXCEPT !.lq = Returned(twin.lq)]
    /\ UNCHANGED <<env, lq, hist, tape, rng>>

NextShared ==
    \/ SharedFirstEnter \/ SharedFirstStep \/ SharedFirstReturn
    \/ SharedSecondEnter \/ SharedSecondStep \/ SharedSecondReturn

SpecShared == InitShared /\ [][NextShared]_vars

\* learn_Q run alone for k iterations on the draws tp[1], ..., tp[k]
RECURSIVE AloneRun(_, _, _)
AloneRun(cfg, tp, k) ==
    IF k = 0
        THEN [env |-> Environment, lq |-> LearnEntry(cfg)]
        ELSE The({ LoopBody(p.env, p.lq, tp[k][1], tp[k][2]) :
                     p \in {AloneRun(cfg, tp, k - 1)} })

(***************************************************************************)
(* Properties.                                                             *)
(***************************************************************************)
InGrid(c) == c[1] \in 0..(Len(rewards) - 1) /\ c[2] \in 0..(Len(rewards[1]) - 1)

\* the state and the action of the last step call, and the table's target for them
LastFrom == possible_states[lq.state]
LastTarget == Transition(possible_actions[lq.action], LastFrom)

\* C1: closure of the transition table: for every state of possible_states and
\* every action, the table's target is a cell inside the 4x6 grid with a non-zero
\* reward, i.e. again a member of possible_states; so the environment is always
\* in a member of possible_states.
C1_Closure ==
    /\ \A k \in 1..Len(possible_states), a \in 1..Len(possible_actions) :
          LET t == Transition(possible_actions[a], possible_states[k])
          IN  /\ InGrid(t)
              /\ RewardAt(t) # 0
              /\ InSeq(possible_states, t)
    /\ InSeq(possible_states, env.current_state)

\* a step has moved the agent to another cell, which is a possible state
C1_Witness ==
    /\ lq.pc = "step"
    /\ env.current_state = LastTarget
    /\ env.current_state # LastFrom
    /\ InSeq(possible_states, env.current_state)

\* C2: right after step(action) from a state whose target is one of the terminal
\* states (1,2), (3,1), (3,5), done is true and current_state is the start state
\* (0,0); for any other target done is false and current_state is the target.
C2_StepDone ==
    lq.pc = "step" =>
        IF LastTarget \in {<<1, 2>>, <<3, 1>>, <<3, 5>>}
            THEN lq.done = TRUE /\ env.current_state = <<0, 0>>
            ELSE lq.done = FALSE /\ env.current_state = LastTarget

\* a step from (3,4) to the right has entered the goal (3,5)
C2_Witness ==
    /\ lq.pc = "step"
    /\ LastFrom = <<3, 4>>
    /\ LastTarget = <<3, 5>>
    /\ lq.done

\* C3: the second component step returns is the coordinate whose reward was
\* looked up for this step (the transition target), also when done is true.
C3_ReturnsRewardCell ==
    lq.pc = "step" => lq.new_state = LastTarget /\ lq.reward = RewardAt(lq.new_state)

Stepped == lq'.s = lq.s + 1

\* C5: epsilon_greedy_policy: when the uniform draw is strictly greater than
\* epsilon the action returned is the lowest index among those with the maximal
\* Q[state] value; otherwise it is the index of an action listed in
\* possible_actions_in_state[state], hence of a non-self-loop action.
C5_Policy ==
    [][Stepped =>
        LET st == lq'.state
            act == lq'.action
        IN  /\ possible_states[st] = env.current_state
            /\ act \in 1..Len(possible_actions)
            /\ IF lq'.u > lq.epsilon
                  THEN /\ \A a \in 1..Len(possible_actions) : lq.Q[st][a] <= lq.Q[st][act]
                       /\ \A a \in 1..(act - 1) : lq.Q[st][a] < lq.Q[st][act]
                  ELSE /\ InSeq(possible_actions_in_state[st], possible_actions[act])
                       /\ Transition(possible_actions[act], possible_states[st])
                            # possible_states[st]]_vars

\* the greedy branch has chosen "up" at (0,0): "right" and "left" were worse
C5_Witness ==
    /\ hist # <<>>
    /\ lq.u > hist[Len(hist)].epsilon
    /\ lq.state = 1
    /\ possible_actions[lq.action] = "up"
    /\ lq.Q[1][1] < 0 /\ lq.Q[1][2] < 0

\* C6: the Q update of one step, s the index of the state before the step and a
\* the chosen action: if not done, Q'[s,a] = Q[s,a] + lr * (reward + gamma *
\* max_a' Q[s',a'] - Q[s,a]) with s' the state reached and the max read from the
\* table before the write; if done, Q'[s,a] = Q[s,a] + lr * (reward - Q[s,a]).
\* (Both sides are multiplied by the denominators of lr and gamma.)
C6_QUpdate ==
    [][Stepped =>
        LET st == lq'.state
            act == lq'.action
            lr == lq.cfg.learning_rate
            g == lq.cfg.gamma
            old == lq.Q[st][act]
            new == lq'.Q[st][act]
            r == lq'.reward * QScale
        IN  /\ possible_states[st] = env.current_state
            /\ IF ~lq'.done
                  THEN \E sp \in 1..Len(possible_states) :
                          /\ possible_states[sp] = env'.current_state
                          /\ \E b \in 1..Len(possible_actions) :
                                /\ \A a \in 1..Len(possible_actions) : lq.Q[sp][a] <= lq.Q[sp][b]
                                /\ lr[2] * g[2] * (new - old)
                                     = lr[1] * (g[2] * r + g[1] * lq.Q[sp][b] - g[2] * old)
                  ELSE lr[2] * (new - old) = lr[1] * (r - old)]_vars

\* a wall bump at (0,0) whose bootstrap term was negative: with reward -1 the
\* value fell below -1
C6_Witness ==
    /\ lq.s > 0 /\ ~lq.done
    /\ lq.new_index = lq.state
    /\ lq.Q[lq.state][lq.action] < -QScale
    /\ \A a \in 1..Len(possible_actions) : lq.Q[lq.state][a] < 0

\* C7: learn_Q ends after exactly max_steps calls of step (one per iteration),
\* whatever the episodes: it never exceeds max_steps, it returns only at
\* max_steps, until it has returned it can go on, and it does return.
StepsWithinBudget ==
    lq.cfg.max_steps >= 0 =>
        /\ Len(hist) = lq.s
        /\ lq.s <= lq.cfg.max_steps
        /\ lq.pc = "done" => lq.s = lq.cfg.max_steps
        /\ lq.pc # "done" => ENABLED Next

C7_ExactlyMaxSteps == []StepsWithinBudget /\ <>(lq.pc = "done")

\* a run of MaxSteps steps that has returned after two complete episodes
C7_Witness ==
    /\ lq.pc = "done"
    /\ lq.s = MaxSteps
    /\ Len(lq.cum_rewards) = 2

\* C8: learn_Q returns both the final Q-table and the per-episode returns.
C8_ReturnsBoth ==
    lq.pc = "done" =>
        /\ DOMAIN lq.ret = {"Q", "cum_rewards"}
        /\ lq.ret.Q = lq.Q
        /\ lq.ret.cum_rewards = lq.cum_rewards

\* C8 as amended: learn_Q returns only the final Q-table; the per-episode
\* returns are plotted and not returned.
C8_ReturnsQOnly ==
    lq.pc = "done" =>
        /\ lq.ret = [Q |-> lq.Q]
        /\ lq.plotted = lq.cum_rewards

\* learn_Q has returned after at least one complete episode
C8_Witness ==
    /\ lq.pc = "done"
    /\ lq.cum_rewards # <<>>
    /\ lq.ret.Q # ZeroQ

RECURSIVE SumRewards(_, _, _)
\* the sum of the rewards observed in iterations i..j
SumRewards(h, i, j) == IF i > j THEN 0 ELSE h[j].reward + SumRewards(h, i, j - 1)

\* the iterations that reported done=true, in order
DoneSteps(h) == SelectSeq([k \in 1..Len(h) |-> k], LAMBDA k : h[k].done)

\* the first iteration of the episode that iteration d completed
EpisodeStart(h, d) ==
    IF \E k \in 1..(d - 1) : h[k].done
        THEN 1 + CHOOSE k \in 1..(d - 1) : h[k].done /\ \A m \in (k + 1)..(d - 1) : ~h[m].done
        ELSE 1

\* C9: cum_rewards has exactly one entry per step that reported done=true, in
\* completion order; the k-th entry is the sum of the rewards of the k-th
\* episode only; the accumulator holds the rewards of the unfinished episode
\* (0 right after an append).
C9_EpisodeLog ==
    LET d == DoneSteps(hist)
    IN  /\ Len(lq.cum_rewards) = Len(d)
        /\ \A k \in 1..Len(d) :
              lq.cum_rewards[k] = SumRewards(hist, EpisodeStart(hist, d[k]), d[k])
        /\ lq.total_reward = SumRewards(hist, EpisodeStart(hist, Len(hist) + 1), Len(hist))

\* two episodes of different lengths and returns are logged
C9_Witness ==
    /\ Len(lq.cum_rewards) = 2
    /\ lq.cum_rewards[1] # lq.cum_rewards[2]
    /\ lq.done
    /\ lq.total_reward = 0

\* a probability given as scaled integer, or as rational, outside [0, 1]
OutOfRange(e) == e < 0 \/ e > EpsScale
OutOfRangeRat(rat) == rat[1] < 0 \/ rat[1] > rat[2]

BadConfig(cfg) ==
    \/ cfg.max_steps <= 0
    \/ OutOfRangeRat(cfg.learning_rate) \/ OutOfRangeRat(cfg.gamma)
    \/ OutOfRange(cfg.max_epsilon) \/ OutOfRange(cfg.min_epsilon)
    \/ cfg.min_epsilon > cfg.max_epsilon

\* C10: an invalid configuration makes learn_Q fail at entry, before any step
\* is taken and before any Q-table is produced.
C10_FailsAtEntry ==
    BadConfig(lq.cfg) =>
        /\ lq.pc = "error"
        /\ lq.s = 0
        /\ lq.ret = <<>>

\* C10 as amended: learn_Q does not check its configuration and never fails on
\* an invalid one: with max_steps <= 0 it takes no step and returns the all-zero
\* Q-table; with a probability outside [0,1] or min_epsilon > max_epsilon it
\* takes max_steps steps and returns its Q-table.
C10_NoValidation ==
    BadConfig(lq.cfg) =>
        /\ lq.pc \in {"loop", "done"}
        /\ lq.pc = "loop" => ENABLED Next
        /\ lq.cfg.max_steps <= 0 => lq.s = 0 /\ lq.Q = ZeroQ
        /\ lq.pc = "done" =>
              /\ lq.s = (IF lq.cfg.max_steps <= 0 THEN 0 ELSE lq.cfg.max_steps)
              /\ lq.ret = [Q |-> lq.Q]

\* learn_Q(max_steps=-1) has returned the all-zero table
C10_Witness ==
    /\ lq.cfg.max_steps < 0
    /\ lq.pc = "done"
    /\ lq.ret = [Q |-> ZeroQ]

\* the fixed-point arithmetic is exact: after s iterations every Q-value is a
\* multiple of QScale / 2^s, and the decay divides max_epsilon - min_epsilon
ExactArith ==
    /\ \A k \in 1..Len(possible_states), a \in 1..Len(possible_actions) :
          lq.Q[k][a] % Pow2(MaxSteps - lq.s) = 0
    /\ (lq.cfg.max_epsilon - lq.cfg.min_epsilon) % Pow2(lq.cfg.decay_rate * env.episode) = 0

\* the configurations are classified as the interface documents them
ConfigsSorted ==
    /\ \A cfg \in ValidConfigs : ~BadConfig(cfg)
    /\ \A cfg \in InvalidConfigs : BadConfig(cfg)
    /\ lq.pc = lq.pc

\* C11: step called with an action that is none of "right", "left", "up",
\* "down" fails with an error, and current_state and the episode counter are
\* after the failed call what they were before it.
C11_UnknownAction ==
    [][lq'.action = 0 /\ lq'.pc \in {"step", "error"} =>
          lq'.pc = "error" /\ env' = env]_vars

\* a step call has failed in the middle of the second episode
C11_Witness ==
    /\ lq.pc = "error"
    /\ lq.action = 0
    /\ env.current_state = <<2, 3>>
    /\ env.episode = 2

\* C12: within one learn_Q run with decay_rate >= 0 and max_epsilon >=
\* min_epsilon, the epsilon computed at an episode completion is never below
\* min_epsilon and never above the epsilon computed at the completion before it,
\* and the episode counter the formula reads is greater than it was at the
\* completion before.
C12_EpsilonDecay ==
    [][Stepped /\ lq'.done /\ lq.cfg.decay_rate >= 0
          /\ lq.cfg.max_epsilon >= lq.cfg.min_epsilon =>
          /\ lq'.epsilon >= lq.cfg.min_epsilon
          /\ env'.episode > env.episode
          /\ lq'.epsilon = DecayedEpsilon(lq.cfg, env'.episode)
          /\ Len(lq.cum_rewards) >= 1 => lq'.epsilon <= lq.epsilon]_vars

\* the second episode of a run has just completed with an epsilon strictly
\* between min_epsilon and the one computed at the first completion
C12_Witness ==
    /\ lq.pc = "loop"
    /\ lq.done
    /\ Len(lq.cum_rewards) = 2
    /\ lq.cfg.max_epsilon >= lq.cfg.min_epsilon
    /\ lq.epsilon < hist[Len(hist)].epsilon
    /\ lq.epsilon > lq.cfg.min_epsilon
    /\ env.episode = 3

\* C13: the exploration probability handed to epsilon_greedy_policy at every
\* step of learn_Q lies in [min_epsilon, max_epsilon], and before the first
\* episode completes it equals max_epsilon, for every configured max_epsilon
\* (with 0 <= min_epsilon <= max_epsilon <= 1).
C13_EpsilonInRange ==
    lq.pc \in {"loop", "done"} /\ 0 <= lq.cfg.min_epsilon
        /\ lq.cfg.min_epsilon <= lq.cfg.max_epsilon /\ lq.cfg.max_epsilon <= EpsScale =>
        \A k \in 1..Len(hist) :
            /\ hist[k].epsilon >= lq.cfg.min_epsilon
            /\ hist[k].epsilon <= lq.cfg.max_epsilon
            /\ (\A j \in 1..(k - 1) : ~hist[j].done) =>
                  hist[k].epsilon = lq.cfg.max_epsilon

\* C14: self-loop invariant: for every state s of possible_states, an action of
\* possible_actions is listed in possible_actions_in_state[index of s] if and
\* only if its transition from s differs from s; so a step call moves the
\* environment off its state exactly when the action was listed for that state.
C14_SelfLoop ==
    /\ \A k \in 1..Len(possible_states) :
          \A i \in 1..Len(possible_actions) :
              InSeq(possible_actions_in_state[k], possible_actions[i])
                  <=> Transition(possible_actions[i], possible_states[k]) # possible_states[k]
    /\ lq.pc = "step" /\ lq.action > 0 =>
          (InSeq(possible_actions_in_state[lq.state], possible_actions[lq.action])
              <=> LastTarget # LastFrom)

\* step("right") at (1,0) has run into the wall: "right" is not listed for
\* (1,0), "down" is
C14_Witness ==
    /\ lq.pc = "step"
    /\ lq.action > 0
    /\ LastFrom = <<1, 0>>
    /\ possible_actions[lq.action] = "right"
    /\ env.current_state = <<1, 0>>
    /\ ~InSeq(possible_actions_in_state[lq.state], "right")
    /\ InSeq(possible_actions_in_state[lq.state], "down")

\* C15: every non-terminal state of possible_states has at least one action
\* whose transition is not a self-loop, so its possible_actions_in_state list is
\* non-empty; the learner is only ever in a non-terminal state, so the list the
\* exploratory random.choice is given is never empty.
C15_ChoiceNonEmpty ==
    /\ \A k \in 1..Len(possible_states) :
          possible_states[k] \notin terminal_states =>
              /\ \E i \in 1..Len(possible_actions) :
                    Transition(possible_actions[i], possible_states[k]) # possible_states[k]
              /\ Len(possible_actions_in_state[k]) >= 1
    /\ lq.pc = "loop" =>
          /\ env.current_state \notin terminal_states
          /\ Len(possible_actions_in_state[IndexOf(possible_states, env.current_state)]) >= 1
    /\ lq.pc = "loop" /\ lq.s >= 1 /\ lq.u <= hist[Len(hist)].epsilon =>
          possible_actions[lq.action] \in
              {possible_actions_in_state[lq.state][i] :
                  i \in 1..Len(possible_actions_in_state[lq.state])}

\* the exploratory branch has drawn from the one-element list of (0,0), at the
\* start of the second episode
C15_Witness ==
    /\ lq.pc = "loop"
    /\ Len(lq.cum_rewards) = 1
    /\ lq.u <= hist[Len(hist)].epsilon
    /\ lq.state = 1
    /\ Len(possible_actions_in_state[1]) = 1
    /\ possible_actions[lq.action] = "down"
    /\ lq.c = 2

\* C16: episode counter of one Environment instance: right after construction
\* current_state is (0,0) and the counter is 1; every reset() sets current_state
\* to (0,0) and increases the counter by exactly 1; no operation decreases the
\* counter, and whenever it changes it grows by 1 with the environment back at
\* (0,0).
C16_EpisodeLifecycle ==
    /\ env.current_state = <<0, 0>> /\ env.episode = 1
    /\ [][/\ lq'.pc = "reset" =>
                env'.current_state = <<0, 0>> /\ env'.episode = env.episode + 1
          /\ env'.episode >= env.episode
          /\ env'.episode # env.episode =>
                env'.episode = env.episode + 1 /\ env'.current_state = <<0, 0>>]_vars

\* reset() has been called in the middle of the second episode, after a step to
\* (1,0)
C16_Witness ==
    /\ lq.pc = "reset"
    /\ lq.new_state = <<1, 0>>
    /\ env.current_state = <<0, 0>>
    /\ env.episode = 3

\* one step in direction a, as (row, column) offsets
Direction(a) ==
    CASE a = "right" -> <<0, 1>>
      [] a = "left"  -> <<0, -1>>
      [] a = "up"    -> <<-1, 0>>
      [] a = "down"  -> <<1, 0>>

\* "walking into a wall = staying in the same place": the neighbouring cell if it
\* is inside the grid and has a non-zero reward, the cell itself otherwise
WallRule(a, c) ==
    LET n == <<c[1] + Direction(a)[1], c[2] + Direction(a)[2]>>
    IN  IF InGrid(n) /\ RewardAt(n) # 0 THEN n ELSE c

\* C17: the hand-authored transition table equals the wall rule on every state of
\* possible_states and every action: transitions[a][s] is the neighbouring cell
\* one step in direction a when that cell lies inside the 4x6 grid and has a
\* non-zero reward, and s itself otherwise; so every step call moves the
\* environment as the rule says.
C17_TableMatchesRule ==
    /\ \A k \in 1..Len(possible_states) :
          \A i \in 1..Len(possible_actions) :
              Transition(possible_actions[i], possible_states[k])
                  = WallRule(possible_actions[i], possible_states[k])
    /\ lq.pc = "step" /\ lq.action > 0 =>
          LastTarget = WallRule(possible_actions[lq.action], LastFrom)

\* step("right") at (2,3) has run into the zero-reward cell (2,4) and stayed,
\* in the second episode
C17_Witness ==
    /\ lq.pc = "step"
    /\ lq.action > 0
    /\ LastFrom = <<2, 3>>
    /\ possible_actions[lq.action] = "right"
    /\ RewardAt(<<2, 4>>) = 0
    /\ env.current_state = <<2, 3>>
    /\ env.episode = 2

\* an activation l has the Q-table and the per-episode returns that learn_Q run
\* alone with its parameters has after as many iterations (as far as the
\* sequence of its seed is known)
AsAlone(l) ==
    l.pc \in {"loop", "done"} /\ l.s <= Len(tape[l.cfg.seed]) =>
        \A alone \in {AloneRun(l.cfg, tape[l.cfg.seed], l.s).lq} :
            l.Q = alone.Q /\ l.cum_rewards = alone.cum_rewards

\* C18: a learn_Q run reads and writes only state it owns: with the steps of two
\* learn_Q runs interleaved in any order, each run has the Q-table and the
\* per-episode returns that it has when executed alone.
C18_Isolated == AsAlone(lq) /\ AsAlone(twin.lq)

\* the cells of the table Qt that are not zero
NonZeroCells(Qt) ==
    {kc \in (DOMAIN Qt) \X (1..Len(possible_actions)) : Qt[kc[1]][kc[2]] # 0}

\* C20: frame of the Q-table in learn_Q: the table starts all zero with shape
\* 18 x 4 = (number of possible_states) x (number of possible_actions) and keeps
\* that shape; a loop step leaves every cell unchanged except possibly Q[s,a],
\* s the index of the state before the step and a the chosen action; nothing
\* but a loop step changes the table.
C20_QFrame ==
    /\ lq.Q = ZeroQ
    /\ Len(possible_states) = 18 /\ Len(possible_actions) = 4
    /\ [](/\ DOMAIN lq.Q = 1..Len(possible_states)
          /\ \A k \in DOMAIN lq.Q : DOMAIN lq.Q[k] = 1..Len(possible_actions))
    /\ [][IF Stepped
             THEN /\ lq'.state = IndexOf(possible_states, env.current_state)
                  /\ \A k \in DOMAIN lq.Q :
                        \A a \in DOMAIN lq.Q[k] :
                            k # lq'.state \/ a # lq'.action => lq'.Q[k][a] = lq.Q[k][a]
             ELSE lq'.Q = lq.Q]_vars

\* three iterations have written three different cells of the table
C20_Witness ==
    /\ lq.pc = "loop"
    /\ lq.s = 3
    /\ Cardinality(NonZeroCells(lq.Q)) = 3
    /\ lq.Q[lq.state][lq.action] # 0

\* C21: in learn_Q, epsilon, the per-episode return log and the environment's
\* episode counter change only on steps that report done; on a step that does
\* not, all three are unchanged and the running accumulator total_reward grows
\* by exactly that step's reward.
C21_DoneOnly ==
    [][/\ Stepped /\ ~lq'.done =>
            /\ lq'.epsilon = lq.epsilon
            /\ lq'.cum_rewards = lq.cum_rewards
            /\ env'.episode = env.episode
            /\ lq'.total_reward = lq.total_reward + lq'.reward
       /\ lq'.epsilon # lq.epsilon \/ lq'.cum_rewards # lq.cum_rewards
              \/ env'.episode # env.episode => Stepped /\ lq'.done]_vars

\* a step of the second episode that did not end it: epsilon has decayed once,
\* one return is logged, the accumulator holds the two rewards of this episode
C21_Witness ==
    /\ lq.pc = "loop"
    /\ lq.s >= 1
    /\ ~lq.done
    /\ Len(lq.cum_rewards) = 1
    /\ env.episode = 2
    /\ lq.epsilon < EpsScale
    /\ lq.total_reward = -2

\* the environment placed on the state of index k
EnvAt(k) == [env EXCEPT !.current_state = possible_states[k]]

\* C22: self-loop actions are not forbidden: step accepts each of the four
\* actions in every non-terminal state of possible_states, and for an action
\* whose transition from the current state is a self-loop it leaves current_state
\* and the episode counter unchanged and returns (reward of the current cell,
\* current cell, done = false); the greedy branch of the policy selects such an
\* action, "right" at (0,0), when the Q-table is all zero; and every self-loop
\* step of learn_Q leaves the environment as it was.
C22_SelfLoopStep ==
    /\ \A k \in 1..Len(possible_states) :
          possible_states[k] \notin terminal_states =>
              \A i \in 1..Len(possible_actions) :
                  \A r \in {Step(EnvAt(k), possible_actions[i])} :
                      /\ ~r.error
                      /\ Transition(possible_actions[i], possible_states[k]) = possible_states[k] =>
                            /\ r.env = EnvAt(k)
                            /\ r.reward = RewardAt(possible_states[k])
                            /\ r.state = possible_states[k]
                            /\ ~r.done
    /\ \A act \in {epsilon_greedy_policy(ZeroQ, 1, EpsScale \div 2, EpsScale - 1, 0)} :
          /\ possible_actions[act] = "right"
          /\ Transition(possible_actions[act], possible_states[1]) = possible_states[1]
    /\ [][Stepped /\ Transition(possible_actions[lq'.action], env.current_state)
                        = env.current_state =>
              /\ env' = env
              /\ lq'.reward = RewardAt(env.current_state)
              /\ lq'.new_state = env.current_state
              /\ ~lq'.done]_vars

\* the greedy branch has chosen "right" at (0,0), a self-loop, and the agent is
\* still at (0,0) in the same episode
C22_Witness ==
    /\ lq.pc = "loop"
    /\ lq.s >= 1
    /\ lq.u > hist[Len(hist)].epsilon
    /\ lq.state = 1
    /\ possible_actions[lq.action] = "right"
    /\ lq.new_state = <<0, 0>>
    /\ env.current_state = <<0, 0>>
    /\ ~lq.done
    /\ lq.reward = -1

\* C23: after construction and after any sequence of step and reset calls,
\* current_state is a member of possible_states and is not a terminal state; so
\* the state index computed before a step call exists and is never the index of
\* a terminal state.
C23_NeverTerminal ==
    /\ InSeq(possible_states, env.current_state)
    /\ env.current_state \notin terminal_states
    /\ lq.pc = "step" /\ lq.action > 0 =>
          /\ lq.state \in 1..Len(possible_states)
          /\ possible_states[lq.state] \notin terminal_states

\* step("right") from (3,4) has entered the goal (3,5): the call reported done
\* with reward 100 and left the environment at (0,0)
C23_Witness ==
    /\ lq.pc = "step"
    /\ lq.action > 0
    /\ LastFrom = <<3, 4>>
    /\ LastTarget = <<3, 5>>
    /\ LastTarget \in terminal_states
    /\ lq.done
    /\ lq.reward = 100
    /\ env.current_state = <<0, 0>>

\* the indices of the terminal states in possible_states
TerminalRows == {k \in 1..Len(possible_states) : possible_states[k] \in terminal_states}

\* C24: throughout a learn_Q run the Q-table rows of the three terminal states
\* (1,2), (3,1) and (3,5) stay all zero: the row written by an iteration is not
\* a terminal row, and the row a bootstrap term reads (on a step that is not
\* done) is not a terminal row either.
C24_TerminalRowsZero ==
    lq.pc \in {"loop", "done"} =>
        /\ Cardinality(TerminalRows) = 3
        /\ \A k \in TerminalRows : \A a \in 1..Len(possible_actions) : lq.Q[k][a] = 0
        /\ lq.s >= 1 =>
              /\ lq.state \notin TerminalRows
              /\ ~lq.done => lq.new_index \in (1..Len(possible_states)) \ TerminalRows

\* an episode has just ended in the trap (3,1): the cell that led there has a
\* Q-value, the rows of the terminal states have none
C24_Witness ==
    /\ lq.pc = "loop"
    /\ lq.s >= 1
    /\ lq.done
    /\ lq.reward = -100000
    /\ possible_states[lq.state] = <<2, 1>>
    /\ lq.Q[lq.state][lq.action] < 0
    /\ \A k \in TerminalRows : \A a \in 1..Len(possible_actions) : lq.Q[k][a] = 0

\* C25: at every iteration boundary of learn_Q, env.episode equals 1 + the
\* number of entries of cum_rewards; hence the epsilon computed when the k-th
\* episode completes is the decay formula at the counter value k + 1 (the first
\* recomputation uses 2, not 1).
C25_EpisodeCount ==
    lq.pc \in {"loop", "done"} =>
        /\ env.episode = 1 + Len(lq.cum_rewards)
        /\ lq.s >= 1 /\ lq.done =>
              lq.epsilon = DecayedEpsilon(lq.cfg, Len(lq.cum_rewards) + 1)

\* the first episode has just completed: the counter is 2 and epsilon is
\* max_epsilon * exp(-2 * decay_rate), a quarter of max_epsilon for decay_rate ln 2
C25_Witness ==
    /\ lq.pc = "loop"
    /\ lq.s >= 1
    /\ lq.done
    /\ Len(lq.cum_rewards) = 1
    /\ env.episode = 2
    /\ lq.cfg.decay_rate = 1 /\ lq.cfg.min_epsilon = 0 /\ lq.cfg.max_epsilon = EpsScale
    /\ lq.epsilon = EpsScale \div 4

RECURSIVE SumSeq(_)
\* sum(cum_rewards)
SumSeq(seq) == IF seq = <<>> THEN 0 ELSE seq[Len(seq)] + SumSeq(SubSeq(seq, 1, Len(seq) - 1))

\* the last iteration that reported done=true, 0 if there is none
LastDone(h) == IF \E k \in 1..Len(h) : h[k].done
                  THEN CHOOSE k \in 1..Len(h) : h[k].done /\ \A m \in (k + 1)..Len(h) : ~h[m].done
                  ELSE 0

\* C26: at every iteration boundary of learn_Q the sum of all rewards observed
\* so far equals the sum of the entries of cum_rewards plus the accumulator
\* total_reward; the rewards observed after the last done step (those of an
\* episode still unfinished when max_steps is reached) are in the accumulator
\* and not in cum_rewards.
C26_RewardConservation ==
    lq.pc \in {"loop", "done"} =>
        /\ SumRewards(hist, 1, Len(hist)) = SumSeq(lq.cum_rewards) + lq.total_reward
        /\ SumSeq(lq.cum_rewards) = SumRewards(hist, 1, LastDone(hist))
        /\ lq.total_reward = SumRewards(hist, LastDone(hist) + 1, Len(hist))

\* learn_Q has returned in the middle of its second episode: one return is
\* logged, the two rewards of the unfinished episode are in the accumulator
C26_Witness ==
    /\ lq.pc = "done"
    /\ Len(lq.cum_rewards) = 1
    /\ LastDone(hist) = Len(hist) - 2
    /\ lq.total_reward = -2
    /\ SumRewards(hist, 1, Len(hist)) = lq.cum_rewards[1] - 2

\* the cells one transition away from a non-terminal cell of S (an episode ends
\* in a terminal cell: no transition is taken from there)
Successors(S) ==
    {Transition(possible_actions[i], s) :
        s \in S \ terminal_states, i \in 1..Len(possible_actions)}

RECURSIVE ReachIn(_, _)
\* the cells reached from those of S by at most n transitions
ReachIn(S, n) ==
    IF n = 0 THEN S
    ELSE The({ ReachIn(T, n - 1) : T \in {S \cup Successors(S)} })

\* the cells reached from the start state of an episode
Reachable == ReachIn({StartState}, Len(possible_states))

\* C27: every state of possible_states is reachable from the start state (0,0)
\* by a sequence of transitions none of which leaves a terminal state, so every
\* non-terminal one is reachable without passing through a terminal state; and
\* the environment is only ever in such a state.
C27_AllReachable ==
    /\ \A k \in 1..Len(possible_states) : possible_states[k] \in Reachable
    /\ \A c \in Reachable : InSeq(possible_states, c)
    /\ env.current_state \in Reachable \ terminal_states

\* the agent stands on (0,5), nine transitions from the start, in the first
\* episode
C27_Witness ==
    /\ lq.pc = "step"
    /\ lq.action > 0
    /\ env.current_state = <<0, 5>>
    /\ env.episode = 1
    /\ <<0, 5>> \notin ReachIn({StartState}, 8)
    /\ <<0, 5>> \in ReachIn({StartState}, 9)

\* C28: from every non-terminal state of possible_states some terminal state
\* is reachable using only that state's listed non-self-loop actions; so with
\* the exploratory choice fair, every episode eventually ends: step reports
\* done=true and the next episode begins.
C28_EpisodesEnd ==
    /\ [](/\ env.current_state \in CanEnd
          /\ \A k \in 1..Len(possible_states) : possible_states[k] \in CanEnd)
    /\ \A n \in 1..MaxEpisode :
          [](env.episode = n => <>(lq.done /\ env.episode = n + 1))

\* the third episode has just ended in the goal, reached from (3,4)
C28_Witness ==
    /\ lq.pc = "step"
    /\ lq.done
    /\ lq.reward = 100
    /\ LastFrom = <<3, 4>>
    /\ env.episode = 4
    /\ env.current_state = <<0, 0>>

\* the largest return an episode can have: the goal's reward after the seven
\* steps at -1 of a shortest path to it
BestReturn == 93
\* the largest return of an episode that ends in a trap: the trap's reward after
\* the three steps at -1 of a shortest path to it
BestTrapReturn == -100003

\* C29: the largest cumulative reward an episode can have is exactly 93,
\* reached by an 8-step path from (0,0) to the goal (3,5) (no shorter path
\* exists, and every step before the last costs 1); every logged episode return
\* is at most 93, and an episode that ends in a trap (at least four steps from
\* the start) has a return of at most -100003.
C29_BestReturn ==
    lq.pc \in {"loop", "done"} =>
        /\ <<3, 5>> \in ReachIn({StartState}, 8) \ ReachIn({StartState}, 7)
        /\ RewardAt(<<3, 5>>) - 7 = BestReturn
        /\ ReachIn({StartState}, 3) \cap terminal_states = {}
        /\ \A k \in 1..Len(possible_states) :
              IF possible_states[k] \in terminal_states
                  THEN RewardAt(possible_states[k]) \in {100, -100000}
                  ELSE RewardAt(possible_states[k]) = -1
        /\ \A k \in 1..Len(lq.cum_rewards) : lq.cum_rewards[k] <= BestReturn
        /\ lq.s >= 1 /\ lq.done /\ lq.reward < 0 =>
              lq.cum_rewards[Len(lq.cum_rewards)] <= BestTrapReturn

\* the first episode has reached the goal in eight steps and its return, 93, is
\* logged
C29_Witness ==
    /\ lq.pc = "loop"
    /\ lq.s = 8
    /\ lq.done
    /\ lq.reward = 100
    /\ lq.cum_rewards = <<BestReturn>>

====
